---- MODULE Spec2Model ----
(***************************************************************************)
(* Model of src/app.py: the "Executive Tracker" dashboard.                 *)
(*                                                                         *)
(* A Python str is a sequence of one-character strings, so that split,     *)
(* strip, join and the f-strings of the script are computed and not        *)
(* assumed.  A value that may be None is a record [isNone, s].             *)
(***************************************************************************)
EXTENDS Integers, Sequences, FiniteSets, TLC

VARIABLES
    cache,              \* st.cache_data entries of get_channel_data, by category
    transcripts,        \* st.session_state.transcripts
    selected_category,  \* value of the sidebar radio
    page,               \* what the last page run rendered
    run,                \* what the last page run did (event, calls it made)
    fetched,            \* history: outcome of the latest Fetch per video id since Refresh
    steps,              \* number of page runs so far
    probe               \* the call under test of SpecChannels, SpecTranscript, SpecIds

vars == <<cache, transcripts, selected_category, page, run, fetched, steps, probe>>

----------------------------------------------------------------------------
(* Bounds *)

MaxChannels == 2   \* channels modelled per category (a prefix of each list)
MaxSteps == 3      \* page runs explored
MaxIdLen == 3      \* length of the ids of the round-trip probe

----------------------------------------------------------------------------
(* Python values *)

None == [isNone |-> TRUE, s |-> <<>>]
Some(s) == [isNone |-> FALSE, s |-> s]

\* str(x) as an f-string renders it
Format(x) == IF x.isNone THEN <<"N", "o", "n", "e">> ELSE x.s

\* bool(x) of an optional str
Truthy(x) == ~x.isNone /\ Len(x.s) > 0

StartsAt(s, sub, i) ==
    /\ i + Len(sub) - 1 <= Len(s)
    /\ SubSeq(s, i, i + Len(sub) - 1) = sub

\* sub in s
Contains(s, sub) == \E i \in 1..Len(s) : StartsAt(s, sub, i)

RECURSIVE SplitFrom(_, _, _, _)
SplitFrom(s, sep, i, start) ==
    IF i > Len(s) THEN <<SubSeq(s, start, Len(s))>>
    ELSE IF StartsAt(s, sep, i)
         THEN <<SubSeq(s, start, i - 1)>>
                  \o SplitFrom(s, sep, i + Len(sep), i + Len(sep))
         ELSE SplitFrom(s, sep, i + 1, start)

\* s.split(sep)
Split(s, sep) == SplitFrom(s, sep, 1, 1)

Last(q) == q[Len(q)]

Whitespace == {" ", "\n", "\t"}

RECURSIVE LStrip(_)
LStrip(s) == IF s # <<>> /\ Head(s) \in Whitespace THEN LStrip(Tail(s)) ELSE s

RECURSIVE RStrip(_)
RStrip(s) ==
    IF s # <<>> /\ s[Len(s)] \in Whitespace THEN RStrip(SubSeq(s, 1, Len(s) - 1)) ELSE s

\* s.strip()
Strip(s) == RStrip(LStrip(s))

RECURSIVE Join(_, _)
\* sep.join(parts)
Join(sep, parts) ==
    IF parts = <<>> THEN <<>>
    ELSE IF Len(parts) = 1 THEN parts[1]
    ELSE parts[1] \o sep \o Join(sep, Tail(parts))

----------------------------------------------------------------------------
(* get_transcript *)

WatchPrefix ==
    <<"h", "t", "t", "p", "s", ":", "/", "/", "w", "w", "w", ".", "y", "o", "u",
      "t", "u", "b", "e", ".", "c", "o", "m", "/", "w", "a", "t", "c", "h", "?",
      "v", "=">>

ShortPrefix ==
    <<"h", "t", "t", "p", "s", ":", "/", "/", "y", "o", "u", "t", "u", ".", "b",
      "e", "/">>

VEq == <<"v", "=">>
ShortHost == <<"y", "o", "u", "t", "u", ".", "b", "e", "/">>

ExtractVideoId_keep_query(video_url) ==
    IF Contains(video_url, VEq) THEN Last(Split(video_url, VEq))
    ELSE IF Contains(video_url, ShortHost) THEN Last(Split(video_url, ShortHost))
    ELSE video_url

\* the video id get_transcript takes from its argument
ExtractVideoId(video_url) ==
    IF Contains(video_url, VEq) THEN Split(Last(Split(video_url, VEq)), <<"&">>)[1]
    ELSE IF Contains(video_url, ShortHost)
         THEN Split(Last(Split(video_url, ShortHost)), <<"?">>)[1]
    ELSE video_url

Languages == <<"pt", "pt-BR", "en", "en-US">>

\* the exceptions YouTubeTranscriptApi.get_transcript can raise, by class;
\* "RequestError" stands for any other subclass of Exception
ApiErrors == {"TranscriptsDisabled", "NoTranscriptFound", "VideoUnavailable", "RequestError"}

\* isinstance(exc, cls) for the except clauses of get_transcript
IsInstance(exc, cls) == cls = exc \/ cls = "Exception"

Handlers_no_catch_all == <<"TranscriptsDisabled", "NoTranscriptFound", "VideoUnavailable">>

\* the except clauses of get_transcript, in order
Handlers == <<"TranscriptsDisabled", "NoTranscriptFound", "VideoUnavailable", "Exception">>

Caught(exc) == \E i \in 1..Len(Handlers) : IsInstance(exc, Handlers[i])

ApiCall_short_languages(video_id) ==
    [strategy |-> "YouTubeTranscriptApi.get_transcript",
     video_id |-> video_id, languages |-> <<"en">>]

\* the one retrieval get_transcript performs
ApiCall(video_id) ==
    [strategy |-> "YouTubeTranscriptApi.get_transcript",
     video_id |-> video_id, languages |-> Languages]

\* get_transcript(video_url) when the captions API answers `api`:
\* api.kind is "ok" (api.entries are the caption texts) or one of ApiErrors
get_transcript(video_url, api) ==
    LET video_id == ExtractVideoId(video_url)
        attempts == <<ApiCall(video_id)>>
    IN  IF api.kind = "ok"
        THEN [raised |-> "none", value |-> Some(Join(<<"\n">>, api.entries)),
              video_id |-> video_id, attempts |-> attempts]
        ELSE IF Caught(api.kind)
        THEN [raised |-> "none", value |-> None,
              video_id |-> video_id, attempts |-> attempts]
        ELSE [raised |-> api.kind, value |-> None,
              video_id |-> video_id, attempts |-> attempts]

----------------------------------------------------------------------------
(* Configuration *)

GEM_URL == <<"https://gemini.google.com/gem/1HTDzIGbVXIA7dJodfgK3jahP3sayuWWl?usp=sharing">>

CategoryNames == <<"Tech", "Macro", "Geral">>

CATEGORIES ==
    [c \in {"Tech", "Macro", "Geral"} |->
        CASE c = "Tech" ->
               <<"https://www.youtube.com/@JordiVisserLabs/videos",
                 "https://www.youtube.com/@peterdiamandis/videos",
                 "https://www.youtube.com/@AcquiredFM/videos",
                 "https://www.youtube.com/@ycombinator/videos",
                 "https://www.youtube.com/@BitBiasedAI/videos",
                 "https://www.youtube.com/@IBMTechnology/videos",
                 "https://www.youtube.com/@ILTB_Podcast/videos",
                 "https://www.youtube.com/@Stratechery/videos",
                 "https://www.youtube.com/@GiantVentures/videos",
                 "https://www.youtube.com/@PioneersofAI/videos",
                 "https://www.youtube.com/@AIUpload/videos",
                 "https://www.youtube.com/@NoPriorsPodcast/videos",
                 "https://www.youtube.com/@MarinaWyssAI/videos",
                 "https://www.youtube.com/@EverydayAI_/videos",
                 "https://www.youtube.com/@CanalTech/videos">>
          [] c = "Macro" ->
               <<"https://www.youtube.com/@BobEUnlimited/videos",
                 "https://www.youtube.com/@macrovoices7508/videos",
                 "https://www.youtube.com/@EconomistaSincero/videos",
                 "https://www.youtube.com/@RichRP/videos">>
          [] c = "Geral" ->
               <<"https://www.youtube.com/@StockPickers/videos",
                 "https://www.youtube.com/@mmakers/videos",
                 "https://www.youtube.com/@business/videos",
                 "https://www.youtube.com/@wealthhighgovernance/videos",
                 "https://www.youtube.com/@MastersofScale_/videos",
                 "https://www.youtube.com/@allin/videos",
                 "https://www.youtube.com/@PodcastFlow/videos",
                 "https://www.youtube.com/@Podpah/videos">>]

Categories == DOMAIN CATEGORIES

Min(a, b) == IF a < b THEN a ELSE b

Range(q) == {q[i] : i \in 1..Len(q)}

\* the channels of a category that the model enumerates: the first MaxChannels
Channels(c) == SubSeq(CATEGORIES[c], 1, Min(MaxChannels, Len(CATEGORIES[c])))

\* the part of a configured channel URL between '@' and '/videos'
Handle(channel_url) ==
    CASE channel_url = "https://www.youtube.com/@JordiVisserLabs/videos" -> "JordiVisserLabs"
      [] channel_url = "https://www.youtube.com/@peterdiamandis/videos" -> "peterdiamandis"
      [] channel_url = "https://www.youtube.com/@AcquiredFM/videos" -> "AcquiredFM"
      [] channel_url = "https://www.youtube.com/@ycombinator/videos" -> "ycombinator"
      [] channel_url = "https://www.youtube.com/@BitBiasedAI/videos" -> "BitBiasedAI"
      [] channel_url = "https://www.youtube.com/@IBMTechnology/videos" -> "IBMTechnology"
      [] channel_url = "https://www.youtube.com/@ILTB_Podcast/videos" -> "ILTB_Podcast"
      [] channel_url = "https://www.youtube.com/@Stratechery/videos" -> "Stratechery"
      [] channel_url = "https://www.youtube.com/@GiantVentures/videos" -> "GiantVentures"
      [] channel_url = "https://www.youtube.com/@PioneersofAI/videos" -> "PioneersofAI"
      [] channel_url = "https://www.youtube.com/@AIUpload/videos" -> "AIUpload"
      [] channel_url = "https://www.youtube.com/@NoPriorsPodcast/videos" -> "NoPriorsPodcast"
      [] channel_url = "https://www.youtube.com/@MarinaWyssAI/videos" -> "MarinaWyssAI"
      [] channel_url = "https://www.youtube.com/@EverydayAI_/videos" -> "EverydayAI_"
      [] channel_url = "https://www.youtube.com/@CanalTech/videos" -> "CanalTech"
      [] channel_url = "https://www.youtube.com/@BobEUnlimited/videos" -> "BobEUnlimited"
      [] channel_url = "https://www.youtube.com/@macrovoices7508/videos" -> "macrovoices7508"
      [] channel_url = "https://www.youtube.com/@EconomistaSincero/videos" -> "EconomistaSincero"
      [] channel_url = "https://www.youtube.com/@RichRP/videos" -> "RichRP"
      [] channel_url = "https://www.youtube.com/@StockPickers/videos" -> "StockPickers"
      [] channel_url = "https://www.youtube.com/@mmakers/videos" -> "mmakers"
      [] channel_url = "https://www.youtube.com/@business/videos" -> "business"
      [] channel_url = "https://www.youtube.com/@wealthhighgovernance/videos" -> "wealthhighgovernance"
      [] channel_url = "https://www.youtube.com/@MastersofScale_/videos" -> "MastersofScale_"
      [] channel_url = "https://www.youtube.com/@allin/videos" -> "allin"
      [] channel_url = "https://www.youtube.com/@PodcastFlow/videos" -> "PodcastFlow"
      [] channel_url = "https://www.youtube.com/@Podpah/videos" -> "Podpah"

\* clean_url: every configured URL already ends in '/videos' and in no '/',
\* so rstrip('/') and the endswith test leave each of them as it is
CleanUrl(channel_url) == channel_url

\* clean_url.split('@')[-1], the title used when the scraper reports no 'channel'
DefaultTitle(clean_url) == Handle(clean_url) \o "/videos"

\* every channel title the model can produce, in the order of Python's str comparison
TitleOrder ==
    <<"AIUpload", "AIUpload/videos", "AcquiredFM", "AcquiredFM/videos", "BitBiasedAI",
      "BitBiasedAI/videos", "BobEUnlimited", "BobEUnlimited/videos", "CanalTech",
      "CanalTech/videos", "EconomistaSincero", "EconomistaSincero/videos", "EverydayAI_",
      "EverydayAI_/videos", "GiantVentures", "GiantVentures/videos", "IBMTechnology",
      "IBMTechnology/videos", "ILTB_Podcast", "ILTB_Podcast/videos", "JordiVisserLabs",
      "JordiVisserLabs/videos", "MarinaWyssAI", "MarinaWyssAI/videos", "MastersofScale_",
      "MastersofScale_/videos", "NoPriorsPodcast", "NoPriorsPodcast/videos",
      "PioneersofAI", "PioneersofAI/videos", "PodcastFlow", "PodcastFlow/videos", "Podpah",
      "Podpah/videos", "RichRP", "RichRP/videos", "StockPickers", "StockPickers/videos",
      "Stratechery", "Stratechery/videos", "allin", "allin/videos", "business",
      "business/videos", "macrovoices7508", "macrovoices7508/videos", "mmakers",
      "mmakers/videos", "peterdiamandis", "peterdiamandis/videos", "wealthhighgovernance",
      "wealthhighgovernance/videos", "ycombinator", "ycombinator/videos">>

TitleIndex == [t \in {TitleOrder[i] : i \in 1..Len(TitleOrder)} |->
                   CHOOSE i \in 1..Len(TitleOrder) : TitleOrder[i] = t]

TitleRank(t) == TitleIndex[t]

----------------------------------------------------------------------------
(* get_channel_data *)

\* What ydl.extract_info answers for one channel:
\*   kind "raise": it raises DownloadError; kind "none": it returns None
\*   (ignoreerrors); kind "info": it returns a dict, with or without the keys
\*   'channel' and 'entries' (entriesKind "list", "missing", or "null" for None).
\* An entry is a dict with 'id' and 'title' (each possibly absent), or a falsy
\* entry (None or the empty dict).
Entry(id, title) == [truthy |-> TRUE, id |-> id, title |-> title]
FalsyEntry == [truthy |-> FALSE, id |-> None, title |-> None]

Raise == [kind |-> "raise", hasChannel |-> FALSE, channel |-> "", entriesKind |-> "missing",
          entries |-> <<>>]
NoInfo == [kind |-> "none", hasChannel |-> FALSE, channel |-> "", entriesKind |-> "missing",
           entries |-> <<>>]
Info(hasChannel, channel, entriesKind, entries) ==
    [kind |-> "info", hasChannel |-> hasChannel, channel |-> channel,
     entriesKind |-> entriesKind, entries |-> entries]

\* the dict appended to all_videos for entry v (views, duration and
\* upload_date are display-only and left out)
VideoRecord(channel_title, channel_url, v) ==
    [channel |-> channel_title, channel_url |-> channel_url, title |-> v.title,
     url |-> WatchPrefix \o Format(v.id), id |-> v.id]

RECURSIVE EntryRecords(_, _, _)
\* the loop over entries
EntryRecords(channel_title, channel_url, entries) ==
    IF entries = <<>> THEN <<>>
    ELSE (IF Head(entries).truthy
          THEN <<VideoRecord(channel_title, channel_url, Head(entries))>>
          ELSE <<>>)
         \o EntryRecords(channel_title, channel_url, Tail(entries))

\* the body of the try block for one channel: the exception it ends with
\* ("none" when it completes) and the records appended by then
TryChannel(channel_url, out) ==
    LET clean_url == CleanUrl(channel_url)
        channel_title == IF out.hasChannel THEN out.channel ELSE DefaultTitle(clean_url)
    IN  IF out.kind = "raise" THEN [exc |-> "DownloadError", recs |-> <<>>]
        ELSE IF out.kind = "none" THEN [exc |-> "AttributeError", recs |-> <<>>]
        ELSE IF out.entriesKind = "null" THEN [exc |-> "TypeError", recs |-> <<>>]
        ELSE [exc |-> "none",
              recs |-> EntryRecords(channel_title, channel_url,
                                    IF out.entriesKind = "list" THEN out.entries ELSE <<>>)]

\* what 'except Exception' catches, of the exceptions the try block can end with
ChannelHandlers == {"DownloadError", "AttributeError", "TypeError"}

RECURSIVE CollectChannels_break(_, _, _)
CollectChannels_break(channels, scraper, i) ==
    IF i > Len(channels) THEN [raised |-> "none", videos |-> <<>>, calls |-> <<>>]
    ELSE LET clean_url == CleanUrl(channels[i])
             r == TryChannel(channels[i], scraper[clean_url])
             rest == CollectChannels_break(channels, scraper, i + 1)
         IN  IF r.exc = "none"
             THEN [raised |-> rest.raised, videos |-> r.recs \o rest.videos,
                   calls |-> <<clean_url>> \o rest.calls]
             ELSE [raised |-> "none", videos |-> r.recs, calls |-> <<clean_url>>]

RECURSIVE CollectChannels(_, _, _)
\* the loop over channels from the i-th on ('continue' after a caught
\* exception): what the call ends with, the list built, and the URLs handed
\* to ydl.extract_info
CollectChannels(channels, scraper, i) ==
    IF i > Len(channels) THEN [raised |-> "none", videos |-> <<>>, calls |-> <<>>]
    ELSE LET clean_url == CleanUrl(channels[i])
             r == TryChannel(channels[i], scraper[clean_url])
         IN  IF r.exc = "none" \/ r.exc \in ChannelHandlers
             THEN LET rest == CollectChannels(channels, scraper, i + 1)
                  IN  [raised |-> rest.raised, videos |-> r.recs \o rest.videos,
                       calls |-> <<clean_url>> \o rest.calls]
             ELSE [raised |-> r.exc, videos |-> r.recs, calls |-> <<clean_url>>]

\* get_channel_data(category_name) when extract_info answers scraper[clean_url]
get_channel_data(category_name, scraper) ==
    CollectChannels(Channels(category_name), scraper, 1)

----------------------------------------------------------------------------
(* The page script *)

Digits == <<"0", "1", "2", "3", "4", "5", "6", "7", "8", "9">>

RECURSIVE IntStr(_)
\* str(i) for i >= 0
IntStr(i) == IF i < 10 THEN <<Digits[i + 1]>> ELSE IntStr(i \div 10) \o <<Digits[(i % 10) + 1]>>

\* f"transcript_{v['id']}"
TranscriptKey(id) == <<"t", "r", "a", "n", "s", "c", "r", "i", "p", "t", "_">> \o Format(id)

\* f"btn_{v['id']}_{i}"
BtnKey(id, i) == <<"b", "t", "n", "_">> \o Format(id) \o <<"_">> \o IntStr(i)

ErrorMarker == <<"E", "R", "R", "O", "R">>

RECURSIVE InsertByChannel(_, _)
InsertByChannel(sorted, v) ==
    IF sorted = <<>> THEN <<v>>
    ELSE IF TitleRank(Head(sorted).channel) <= TitleRank(v.channel)
         THEN <<Head(sorted)>> \o InsertByChannel(Tail(sorted), v)
         ELSE <<v>> \o sorted

RECURSIVE SortByChannel(_)
\* videos.sort(key=lambda x: x['channel']), a stable sort
SortByChannel(videos) ==
    IF videos = <<>> THEN <<>>
    ELSE InsertByChannel(SortByChannel(SubSeq(videos, 1, Len(videos) - 1)),
                         videos[Len(videos)])

\* the index i that enumerate gives row k inside its groupby group
GroupIndex(sorted, k) == Cardinality({j \in 1..(k - 1) : sorted[j].channel = sorted[k].channel})

\* what the Fetch handler stores for the value get_transcript returned
StoreContent(content) ==
    IF Truthy(content) /\ Len(Strip(content.s)) > 0 THEN content.s ELSE ErrorMarker

Put(store, key, value) ==
    [k \in DOMAIN store \cup {key} |-> IF k = key THEN value ELSE store[k]]

NoStore == [k \in {} |-> <<>>]

\* the session-state key of row v
RowKey(v) == TranscriptKey(v.id)

Popover_video_link(v) == [copy |-> v.url, link |-> v.url]

\* the popover of row v: st.code(v['url']) and st.link_button(.., GEM_URL)
Popover(v) == [copy |-> v.url, link |-> GEM_URL]

\* the transcript column of row v under the session state `store`
Show(store, v) ==
    IF RowKey(v) \in DOMAIN store
    THEN IF store[RowKey(v)] = ErrorMarker
         THEN [show |-> "na", data |-> <<>>]
         ELSE [show |-> "download",
               data |-> <<"#", " ">> \o Format(v.title) \o <<"\n", "\n">> \o store[RowKey(v)]]
    ELSE [show |-> "none", data |-> <<>>]

\* the rows 1..last of the page, the Fetch handler having run at row h (0: at
\* no row) and turned the store store0 into store1
Rows(sorted, keys, last, h, store0, store1) ==
    [k \in 1..last |->
        [btn |-> keys[k], id |-> sorted[k].id, title |-> sorted[k].title,
         url |-> sorted[k].url, channel |-> sorted[k].channel,
         channel_url |-> sorted[k].channel_url, popover |-> Popover(sorted[k]),
         shown |-> Show(IF h > 0 /\ k >= h THEN store1 ELSE store0, sorted[k])]]

NotHandled == [ran |-> FALSE, id |-> None]

\* the run from the pressed button of row h on: call is what
\* get_transcript(v['url']) ended with
Pressed(sorted, keys, dup, h, call, store0, api) ==
    IF call.raised # "none"
    THEN [rows |-> Rows(sorted, keys, h - 1, 0, store0, store0), empty |-> FALSE,
          crashed |-> TRUE, store |-> store0, handled |-> NotHandled,
          gt |-> <<[url |-> sorted[h].url, api |-> api, result |-> call]>>]
    ELSE LET store1 == Put(store0, RowKey(sorted[h]), StoreContent(call.value))
         IN  [rows |-> Rows(sorted, keys, dup - 1, h, store0, store1), empty |-> FALSE,
              crashed |-> dup <= Len(sorted), store |-> store1,
              handled |-> [ran |-> TRUE, id |-> sorted[h].id],
              gt |-> <<[url |-> sorted[h].url, api |-> api, result |-> call]>>]

\* the first row whose button key repeats an earlier key of the run
\* (Len(keys) + 1: none); Streamlit stops the script there
FirstRepeat(keys) ==
    LET repeats == {k \in 1..Len(keys) : \E j \in 1..(k - 1) : keys[j] = keys[k]}
    IN  IF repeats = {} THEN Len(keys) + 1
        ELSE CHOOSE k \in repeats : \A j \in repeats : k <= j

PressedRow_first(keys, dup, clicked) == IF dup > 1 THEN 1 ELSE 0

\* the row whose st.button returns True: the one with the key the browser
\* reports pressed (0: none)
PressedRow(keys, dup, clicked) ==
    LET pressed == {k \in 1..(dup - 1) : ~clicked.isNone /\ keys[k] = clicked.s}
    IN  IF pressed = {} THEN 0 ELSE CHOOSE k \in pressed : TRUE

RenderWith(sorted, keys, dup, h, store0, api) ==
    IF h = 0
    THEN [rows |-> Rows(sorted, keys, dup - 1, 0, store0, store0),
          empty |-> Len(sorted) = 0, crashed |-> dup <= Len(sorted), store |-> store0,
          handled |-> NotHandled, gt |-> <<>>]
    ELSE Pressed(sorted, keys, dup, h, get_transcript(sorted[h].url, api), store0, api)

RenderKeyed(sorted, keys, dup, store0, clicked, api) ==
    RenderWith(sorted, keys, dup, PressedRow(keys, dup, clicked), store0, api)

RenderSorted(sorted, keys, store0, clicked, api) ==
    RenderKeyed(sorted, keys, FirstRepeat(keys), store0, clicked, api)

ButtonKeys(sorted) == [k \in 1..Len(sorted) |-> BtnKey(sorted[k].id, GroupIndex(sorted, k))]

\* The main content for the list `videos`: clicked is the key of the button
\* the browser reports pressed (None: no button), api what the captions API
\* answers if it is asked.  Streamlit stops the script at a widget whose key
\* repeats an earlier one of the run, and at an exception that escapes.
Render(videos, store0, clicked, api) ==
    RenderSorted(SortByChannel(videos), ButtonKeys(SortByChannel(videos)), store0, clicked, api)

----------------------------------------------------------------------------
(* The environment of the dashboard: what the scraper and the captions API
   can answer *)

CategoryLetter(c) == CASE c = "Tech" -> "T" [] c = "Macro" -> "M" [] c = "Geral" -> "G"

\* the id of the n-th upload of the k-th channel of category c
UploadId(c, k, n) == Some(<<CategoryLetter(c), Digits[k + 1], n>>)

ChannelIndex(c, channel_url) == CHOOSE k \in 1..Len(CATEGORIES[c]) : CATEGORIES[c][k] = channel_url

\* what the k-th channel of c lists when it answers: the first channel of a
\* category an upload, a falsy entry and an untitled upload; the second, with
\* no 'channel' in its info, the same upload twice; the others one upload
Listing(c, channel_url) ==
    LET k == ChannelIndex(c, channel_url)
        a == Entry(UploadId(c, k, "a"), Some(<<"A">>))
        b == Entry(UploadId(c, k, "b"), None)
    IN  IF k = 1 THEN Info(TRUE, Handle(channel_url), "list", <<a, FalsyEntry, b>>)
        ELSE IF k = 2 THEN Info(FALSE, "", "list", <<a, a>>)
        ELSE Info(TRUE, Handle(channel_url), "list", <<a>>)

\* the answers of ydl.extract_info for a channel of c in a run of the
\* dashboard: a download error, or its listing
ScraperAnswers(c, channel_url) == {Raise, Listing(c, channel_url)}

AllScraperAnswers(c) == UNION {ScraperAnswers(c, ch) : ch \in Range(Channels(c))}

\* one answer per channel of category c
Scrapers(c) ==
    {f \in [{CleanUrl(ch) : ch \in Range(Channels(c))} -> AllScraperAnswers(c)] :
        \A ch \in Range(Channels(c)) : f[CleanUrl(ch)] \in ScraperAnswers(c, ch)}

Ok(entries) == [kind |-> "ok", entries |-> entries]
Failed(exc) == [kind |-> exc, entries |-> <<>>]

\* the answers of the captions API the dashboard is run against
ApiAnswers ==
    { Failed("NoTranscriptFound"), Ok(<<<<" ">>>>), Ok(<<<<"x">>, <<"y">>>>),
      Ok(<<ErrorMarker>>) }

AllIds ==
    {None} \cup {UploadId(c, k, n) : c \in Categories, k \in 1..MaxChannels, n \in {"a", "b"}}

----------------------------------------------------------------------------
(* The dashboard as a state machine: one action per browser event, each a
   whole run of the script *)

NoCache == [cached |-> FALSE, videos |-> <<>>]

NotFetched == [kind |-> "none", text |-> <<>>]

\* what a Fetch obtained, as the history variable records it
Obtained(value) ==
    IF ~value.isNone /\ Strip(value.s) # <<>>
    THEN [kind |-> "text", text |-> value.s]
    ELSE [kind |-> "failed", text |-> <<>>]

IdleRun == [seq |-> 0, event |-> "init", clicked |-> None, hit |-> FALSE,
            calls |-> <<>>, videos |-> <<>>, gt |-> <<>>, handled |-> NotHandled]

Dashboard == <<cache, transcripts, selected_category, page, run, fetched, steps>>

\* the session before the first run of the script
DashboardIdle ==
    /\ cache = [c \in Categories |-> NoCache]
    /\ transcripts = NoStore
    /\ selected_category = CategoryNames[1]
    /\ page = [title |-> "", rows |-> <<>>, empty |-> FALSE, crashed |-> FALSE]
    /\ run = IdleRun
    /\ fetched = [i \in AllIds |-> NotFetched]
    /\ steps = 0

Init == DashboardIdle /\ probe = [pc |-> "off"]

Lookup_unkeyed(cache0, cat, scraper) ==
    IF \E c \in Categories : cache0[c].cached
    THEN [hit |-> TRUE, raised |-> "none",
          videos |-> cache0[CHOOSE c \in Categories : cache0[c].cached].videos,
          calls |-> <<>>, cache |-> cache0]
    ELSE LET data == get_channel_data(cat, scraper)
         IN  [hit |-> FALSE, raised |-> data.raised, videos |-> data.videos,
              calls |-> data.calls,
              cache |-> [cache0 EXCEPT ![cat] = [cached |-> TRUE, videos |-> data.videos]]]

\* @st.cache_data: the call get_channel_data(cat) through the cache
Lookup(cache0, cat, scraper) ==
    IF cache0[cat].cached
    THEN [hit |-> TRUE, raised |-> "none", videos |-> cache0[cat].videos,
          calls |-> <<>>, cache |-> cache0]
    ELSE LET data == get_channel_data(cat, scraper)
         IN  [hit |-> FALSE, raised |-> data.raised, videos |-> data.videos,
              calls |-> data.calls,
              cache |-> IF data.raised = "none"
                        THEN [cache0 EXCEPT ![cat] = [cached |-> TRUE, videos |-> data.videos]]
                        ELSE cache0]

\* the state a run leaves and the page it rendered
Commit(event, cat, clicked, got, out, fetched0) ==
    /\ selected_category' = cat
    /\ cache' = got.cache
    /\ transcripts' = out.store
    /\ page' = [title |-> cat, rows |-> out.rows, empty |-> out.empty,
                crashed |-> out.crashed]
    /\ run' = [seq |-> run.seq + 1, event |-> event, clicked |-> clicked,
               hit |-> got.hit, calls |-> got.calls, videos |-> got.videos, gt |-> out.gt,
               handled |-> out.handled]
    /\ fetched' = IF out.handled.ran
                  THEN [fetched0 EXCEPT ![out.handled.id] = Obtained(out.gt[1].result.value)]
                  ELSE fetched0
    /\ steps' = steps + 1
    /\ UNCHANGED probe

\* the script from 'videos = get_channel_data(selected_category)' on
MainContent(event, cat, clicked, got, store0, fetched0, api) ==
    Commit(event, cat, clicked, got,
           IF got.raised = "none" THEN Render(got.videos, store0, clicked, api)
           ELSE [rows |-> <<>>, empty |-> FALSE, crashed |-> TRUE, store |-> store0,
                 handled |-> NotHandled, gt |-> <<>>],
           fetched0)

\* One run of the script from the top with the radio at cat
Script(event, cat, clicked, cache0, store0, fetched0, scraper, api) ==
    MainContent(event, cat, clicked, Lookup(cache0, cat, scraper), store0, fetched0, api)

\* the answers the scraper gives in a run that looks up cat
ScrapersFor(cache0, cat) == IF cache0[cat].cached THEN {<<>>} ELSE Scrapers(cat)

NoApi == Failed("NoTranscriptFound")

\* the browser opens the page
Load ==
    /\ run.event = "init"
    /\ steps < MaxSteps
    /\ \E scraper \in ScrapersFor(cache, selected_category) :
          Script("load", selected_category, None, cache, transcripts, fetched, scraper, NoApi)

\* the user picks another category in the sidebar radio
Select(c) ==
    /\ run.event # "init"
    /\ steps < MaxSteps
    /\ c # selected_category
    /\ \E scraper \in ScrapersFor(cache, c) :
          Script("select", c, None, cache, transcripts, fetched, scraper, NoApi)

\* a re-run with no button pressed (any other widget interaction)
Rerun ==
    /\ run.event # "init"
    /\ steps < MaxSteps
    /\ \E scraper \in ScrapersFor(cache, selected_category) :
          Script("rerun", selected_category, None, cache, transcripts, fetched, scraper, NoApi)

Refresh_keep_store ==
    /\ run.event # "init"
    /\ steps < MaxSteps
    /\ LET cleared == [c \in Categories |-> NoCache]
       IN  \E scraper \in ScrapersFor(cleared, selected_category) :
              Script("refresh", selected_category, None, cleared, transcripts,
                     fetched, scraper, NoApi)

\* the user presses 'Refresh Data': st.cache_data.clear(), the store is
\* emptied, st.rerun() runs the script again
Refresh ==
    /\ run.event # "init"
    /\ steps < MaxSteps
    /\ LET cleared == [c \in Categories |-> NoCache]
       IN  \E scraper \in ScrapersFor(cleared, selected_category) :
              Script("refresh", selected_category, None, cleared, NoStore,
                     [i \in AllIds |-> NotFetched], scraper, NoApi)

\* the user presses the Fetch button of a row of the page shown
Fetch(k) ==
    /\ run.event # "init"
    /\ steps < MaxSteps
    /\ k \in DOMAIN page.rows
    /\ \E scraper \in ScrapersFor(cache, selected_category), api \in ApiAnswers :
          Script("fetch", selected_category, Some(page.rows[k].btn), cache, transcripts,
                 fetched, scraper, api)

\* an hour has passed since category c was enumerated (ttl=3600)
Expire(c) ==
    /\ steps < MaxSteps
    /\ cache[c].cached
    /\ cache' = [cache EXCEPT ![c] = NoCache]
    /\ steps' = steps + 1
    /\ UNCHANGED <<transcripts, selected_category, page, run, fetched, probe>>

Next ==
    \/ Load
    \/ \E c \in Categories : Select(c)
    \/ Rerun
    \/ Refresh
    \/ \E k \in DOMAIN page.rows : Fetch(k)
    \/ \E c \in Categories : Expire(c)

Spec == Init /\ [][Next]_vars

----------------------------------------------------------------------------
(* get_channel_data on its own, over every shape of answer of the scraper *)

\* the answers ydl.extract_info can give for a channel of c
RichAnswers(c, channel_url) ==
    LET k == ChannelIndex(c, channel_url)
        a == Entry(UploadId(c, k, "a"), Some(<<"A">>))
        n == Entry(None, None)
        lists == {<<>>, <<FalsyEntry>>, <<a>>, <<FalsyEntry, a>>, <<a, FalsyEntry, n>>, <<n, n>>}
    IN  {Raise, NoInfo}
        \cup {Info(hasChannel, IF hasChannel THEN Handle(channel_url) ELSE "", "list", l) :
                hasChannel \in BOOLEAN, l \in lists}
        \cup {Info(TRUE, Handle(channel_url), kind, <<>>) : kind \in {"missing", "null"}}

RichScrapers(c) ==
    {f \in [{CleanUrl(ch) : ch \in Range(Channels(c))} ->
                UNION {RichAnswers(c, ch) : ch \in Range(Channels(c))}] :
        \A ch \in Range(Channels(c)) : f[CleanUrl(ch)] \in RichAnswers(c, ch)}

InitChannels ==
    /\ DashboardIdle
    /\ \E c \in Categories : \E scraper \in RichScrapers(c) :
          probe = [pc |-> "ask", category |-> c, scraper |-> scraper]

\* one call get_channel_data(category)
Enumerate ==
    /\ probe.pc = "ask"
    /\ probe' = [pc |-> "done", category |-> probe.category, scraper |-> probe.scraper,
                 result |-> get_channel_data(probe.category, probe.scraper)]
    /\ UNCHANGED Dashboard

NextChannels == Enumerate

SpecChannels == InitChannels /\ [][NextChannels]_vars

----------------------------------------------------------------------------
(* get_transcript and the Fetch handler on their own, over every answer of
   the captions API *)

CaptionTexts == {<<>>, <<" ">>, <<"x">>, ErrorMarker}

\* the answers YouTubeTranscriptApi.get_transcript can give: an exception,
\* or a list of caption entries
RichApiAnswers ==
    {Failed(e) : e \in ApiErrors}
    \cup {Ok(<<>>)} \cup {Ok(<<t>>) : t \in CaptionTexts}
    \cup {Ok(<<t, u>>) : t \in CaptionTexts, u \in CaptionTexts}

\* the list of the first category when every channel answers with its listing
ProbeVideos ==
    get_channel_data(CategoryNames[1],
                     [u \in {CleanUrl(ch) : ch \in Range(Channels(CategoryNames[1]))} |->
                        Listing(CategoryNames[1], u)]).videos

\* URLs of the shapes get_transcript distinguishes
ProbeUrls ==
    { WatchPrefix \o <<"a">>, WatchPrefix \o <<"a", "&", "t", "=", "1">>,
      ShortPrefix \o <<"a">>, ShortPrefix \o <<"a", "?", "t", "=", "1">>, <<"a">> }

InitTranscript ==
    /\ DashboardIdle
    /\ \/ \E api \in RichApiAnswers, k \in 1..Len(ProbeVideos) :
          \E old \in {NoStore,
                      Put(NoStore, TranscriptKey(ProbeVideos[k].id), <<"o", "l", "d">>)} :
             probe = [pc |-> "page", api |-> api, store |-> old,
                      clicked |-> Some(ButtonKeys(SortByChannel(ProbeVideos))[k])]
       \/ \E api \in RichApiAnswers, url \in ProbeUrls :
             probe = [pc |-> "call", api |-> api, url |-> url]

\* the page run of a press on a Fetch button
PressFetch ==
    /\ probe.pc = "page"
    /\ probe' = [pc |-> "pressed", api |-> probe.api, store |-> probe.store,
                 clicked |-> probe.clicked,
                 out |-> Render(ProbeVideos, probe.store, probe.clicked, probe.api)]
    /\ UNCHANGED Dashboard

\* one call get_transcript(video_url)
CallGetTranscript ==
    /\ probe.pc = "call"
    /\ probe' = [pc |-> "returned", api |-> probe.api, url |-> probe.url,
                 result |-> get_transcript(probe.url, probe.api)]
    /\ UNCHANGED Dashboard

NextTranscript == PressFetch \/ CallGetTranscript

SpecTranscript == InitTranscript /\ [][NextTranscript]_vars

----------------------------------------------------------------------------
(* The video id from the scraper's entry to the captions API *)

IdAlphabet == {"a", "v", "=", "&", "?"}

RECURSIVE StringsUpTo(_)
StringsUpTo(n) ==
    IF n = 0 THEN {<<>>}
    ELSE StringsUpTo(n - 1)
         \cup {Append(s, ch) : s \in {t \in StringsUpTo(n - 1) : Len(t) = n - 1}, ch \in IdAlphabet}

\* the ids the scraper may report: any string over the alphabet, or none
ProbeIds == {None} \cup {Some(s) : s \in StringsUpTo(MaxIdLen)}

ProbeQueries == {<<"t", "=", "1">>, <<"v", "=", "1">>}

InitIds ==
    /\ DashboardIdle
    /\ \E id \in ProbeIds, q \in ProbeQueries : probe = [pc |-> "entry", id |-> id, query |-> q]

\* get_channel_data builds the record of an entry with this id
BuildRecord ==
    /\ probe.pc = "entry"
    /\ probe' = [pc |-> "record", id |-> probe.id, query |-> probe.query,
                 rec |-> VideoRecord("JordiVisserLabs", CATEGORIES["Tech"][1],
                                     Entry(probe.id, None))]
    /\ UNCHANGED Dashboard

\* get_transcript(v['url']) of that record
ExtractWatch ==
    /\ probe.pc = "record"
    /\ probe' = [pc |-> "watch", id |-> probe.id, query |-> probe.query, rec |-> probe.rec,
                 passed |-> get_transcript(probe.rec.url, NoApi).video_id]
    /\ UNCHANGED Dashboard

\* get_transcript('https://youtu.be/<id>?<query>')
ExtractShort ==
    /\ probe.pc = "watch"
    /\ probe' = [pc |-> "short", id |-> probe.id, query |-> probe.query, rec |-> probe.rec,
                 passed |-> get_transcript(ShortPrefix \o Format(probe.id) \o <<"?">>
                                               \o probe.query, NoApi).video_id]
    /\ UNCHANGED Dashboard

\* get_transcript('<id>')
ExtractBare ==
    /\ probe.pc = "short"
    /\ probe' = [pc |-> "bare", id |-> probe.id, query |-> probe.query, rec |-> probe.rec,
                 passed |-> get_transcript(Format(probe.id), NoApi).video_id]
    /\ UNCHANGED Dashboard

NextIds == BuildRecord \/ ExtractWatch \/ ExtractShort \/ ExtractBare

SpecIds == InitIds /\ [][NextIds]_vars

----------------------------------------------------------------------------
(* Properties *)

RowsOf(p) == {p.rows[k] : k \in DOMAIN p.rows}

NewRun == run'.seq # run.seq

\* C1: get_transcript is called only in a page run that a press on a Fetch
\* button started, once, and with the URL of the row whose button was pressed;
\* a load, a category selection, a Refresh and a plain re-run never call it.
C1_FetchOnDemand ==
    [][NewRun =>
        /\ (run'.event # "fetch" => run'.gt = <<>>)
        /\ (run'.gt # <<>> =>
              /\ Len(run'.gt) = 1
              /\ \E r \in RowsOf(page) : r.btn = run'.clicked.s /\ run'.gt[1].url = r.url)]_vars

C1_Witness == run.event = "fetch" /\ run.gt # <<>>

RecordOfCategory(rec, c) ==
    /\ rec.channel_url \in Range(CATEGORIES[c])
    /\ \A d \in Categories \ {c} : rec.channel_url \notin Range(CATEGORIES[d])
    /\ rec.url = WatchPrefix \o Format(rec.id)

\* C2: every record get_channel_data(c) returned carries a channel URL
\* configured under c and under no other category, and its url is the watch
\* prefix followed by its id; the page of the selected category lists only
\* records returned for that category.
C2_CategoryRecords ==
    /\ \A c \in Categories : cache[c].cached =>
          \A i \in DOMAIN cache[c].videos : RecordOfCategory(cache[c].videos[i], c)
    /\ run.event # "init" =>
          /\ page.title = selected_category
          /\ \A i \in DOMAIN run.videos : RecordOfCategory(run.videos[i], selected_category)
          /\ \A r \in RowsOf(page) : \E i \in DOMAIN run.videos :
                /\ r.id = run.videos[i].id /\ r.url = run.videos[i].url
                /\ r.title = run.videos[i].title /\ r.channel = run.videos[i].channel
                /\ r.channel_url = run.videos[i].channel_url

C2_Witness ==
    /\ run.event = "select"
    /\ selected_category # CategoryNames[1]
    /\ page.rows # <<>>
    /\ \E c \in Categories \ {selected_category} : cache[c].cached /\ cache[c].videos # <<>>

TruthyIds(entries) ==
    LET kept == SelectSeq(entries, LAMBDA e : e.truthy)
    IN  [j \in 1..Len(kept) |-> kept[j].id]

\* C3: a channel whose enumeration raises or yields no info object is
\* skipped; get_channel_data asks every channel in configured order, returns
\* in that order one record for every non-empty entry of every channel that
\* answered, and does not raise.
C3_ChannelFailuresIsolated ==
    probe.pc = "done" =>
        LET chs == Channels(probe.category)
            res == probe.result
        IN  /\ res.raised = "none"
            /\ res.calls = [i \in 1..Len(chs) |-> CleanUrl(chs[i])]
            /\ \A i \in DOMAIN res.videos : res.videos[i].channel_url \in Range(chs)
            /\ \A i \in DOMAIN res.videos, j \in DOMAIN res.videos :
                  i < j => ChannelIndex(probe.category, res.videos[i].channel_url)
                              <= ChannelIndex(probe.category, res.videos[j].channel_url)
            /\ \A i \in 1..Len(chs) :
                  LET out == probe.scraper[CleanUrl(chs[i])]
                      mine == SelectSeq(res.videos, LAMBDA r : r.channel_url = chs[i])
                  IN  IF out.kind = "info" /\ out.entriesKind = "list"
                      THEN [j \in 1..Len(mine) |-> mine[j].id] = TruthyIds(out.entries)
                      ELSE mine = <<>>

C3_Witness ==
    /\ probe.pc = "done"
    /\ probe.scraper[CleanUrl(Channels(probe.category)[1])].kind \in {"raise", "none"}
    /\ probe.result.videos # <<>>

Blank(value) == value.isNone \/ Strip(value.s) = <<>>

\* C4: get_transcript never lets an exception escape: whatever the captions
\* API raises it returns None, and it returns text only when the API call
\* succeeded; after a Fetch press whose result is None or blank the store
\* holds "ERROR" under the key of that video.
C4_NeverPropagates ==
    /\ probe.pc = "returned" =>
          /\ probe.result.raised = "none"
          /\ (probe.api.kind # "ok" => probe.result.value = None)
          /\ (probe.result.value # None => probe.api.kind = "ok")
    /\ probe.pc = "pressed" =>
          /\ Len(probe.out.gt) = 1
          /\ probe.out.gt[1].result.raised = "none"
          /\ (probe.api.kind # "ok" => probe.out.gt[1].result.value = None)
          /\ (Blank(probe.out.gt[1].result.value) =>
                \E r \in RowsOf(probe.out) :
                    /\ r.btn = probe.clicked.s
                    /\ TranscriptKey(r.id) \in DOMAIN probe.out.store
                    /\ probe.out.store[TranscriptKey(r.id)] = ErrorMarker)

C4_Witness ==
    /\ probe.pc = "pressed"
    /\ probe.api.kind = "RequestError"
    /\ probe.store # NoStore
    /\ \E k \in DOMAIN probe.out.store : probe.out.store[k] = ErrorMarker

FallbackChain == {"manual", "generated", "translated", "direct_download"}

Strategies(result) == {result.attempts[i].strategy : i \in DOMAIN result.attempts}

RECURSIVE IsSubsequence(_, _)
IsSubsequence(sub, seq) ==
    IF sub = <<>> THEN TRUE
    ELSE IF seq = <<>> THEN FALSE
    ELSE IF Head(sub) = Head(seq) THEN IsSubsequence(Tail(sub), Tail(seq))
    ELSE IsSubsequence(sub, Tail(seq))

Sentences(text) == Split(text, <<"\n">>)

C7_RowsFollowFetch ==
    \A r \in RowsOf(page) :
        LET f == fetched[r.id]
        IN  /\ f.kind = "text" =>
                  r.shown = [show |-> "download",
                             data |-> <<"#", " ">> \o Format(r.title) \o <<"\n", "\n">> \o f.text]
            /\ f.kind = "failed" => r.shown.show = "na"
            /\ f.kind = "none" => r.shown.show = "none"

\* C8: the run that follows a press on 'Refresh Data' starts from an empty
\* store and an empty cache: no row shows a download button or 'N/A', and
\* every channel of the selected category is enumerated again; any other run
\* of a category whose enumeration is still cached calls the scraper for no
\* channel.
C8_Refresh ==
    [][NewRun =>
        /\ (run'.event = "refresh" =>
              /\ transcripts' = NoStore
              /\ \A r \in RowsOf(page') : r.shown.show = "none"
              /\ ~run'.hit
              /\ run'.calls = [i \in 1..Len(Channels(selected_category')) |->
                                  CleanUrl(Channels(selected_category')[i])]
              /\ \A c \in Categories \ {selected_category'} : ~cache'[c].cached)
        /\ (run'.event # "refresh" /\ cache[selected_category'].cached =>
              /\ run'.hit
              /\ run'.calls = <<>>
              /\ run'.videos = cache[selected_category'].videos)]_vars

C8_Witness ==
    /\ run.event = "refresh"
    /\ run.seq >= 3
    /\ run.calls # <<>>
    /\ page.rows # <<>>

\* C9 as stated: what the row of a video shows changes only in a run started
\* by a press on the Fetch button of that row, or by Refresh.
C9_OwnEntry ==
    [][NewRun =>
        \A r \in RowsOf(page), q \in RowsOf(page') :
            r.btn = q.btn /\ r.id = q.id /\ r.shown # q.shown
                => \/ run'.event = "refresh"
                   \/ run'.event = "fetch" /\ run'.clicked.s = r.btn]_vars

\* C10 as stated: whatever id the scraper reported, the id passed to the
\* captions API for the record's url is the record's id; 'https://youtu.be/
\* <id>?...' yields <id>; a string with neither 'v=' nor 'youtu.be/' is passed
\* unchanged.
C10_Original ==
    /\ probe.pc = "watch" => Some(probe.passed) = probe.rec.id
    /\ probe.pc = "short" => probe.passed = Format(probe.id)
    /\ probe.pc = "bare" /\ ~Contains(Format(probe.id), VEq)
            /\ ~Contains(Format(probe.id), ShortHost)
          => probe.passed = Format(probe.id)

ShortTail == Format(probe.id) \o <<"?">> \o probe.query

\* C10 as amended: the round trip holds for an id that is a string with
\* neither 'v=' nor '&' in it; 'https://youtu.be/<id>?<query>' yields <id>
\* when neither <id> nor <query> holds 'v=' or 'youtu.be/' and <id> holds no
\* '?'; a string with neither 'v=' nor 'youtu.be/' is passed unchanged.
C10_RoundTrip ==
    /\ probe.pc = "watch" /\ ~probe.id.isNone /\ ~Contains(probe.id.s, VEq)
            /\ ~Contains(probe.id.s, <<"&">>)
          => Some(probe.passed) = probe.rec.id
    /\ probe.pc = "short" /\ ~Contains(ShortTail, VEq) /\ ~Contains(ShortTail, ShortHost)
            /\ ~Contains(Format(probe.id), <<"?">>)
          => probe.passed = Format(probe.id)
    /\ probe.pc = "bare" /\ ~Contains(Format(probe.id), VEq)
            /\ ~Contains(Format(probe.id), ShortHost)
          => probe.passed = Format(probe.id)

C10_Witness ==
    /\ probe.pc = "short"
    /\ ~probe.id.isNone /\ Len(probe.id.s) >= 2
    /\ ~Contains(ShortTail, VEq) /\ ~Contains(Format(probe.id), <<"?">>)
    /\ probe.passed = probe.id.s

====
